---- MODULE Spec2Model ----
(***************************************************************************)
(* A model of the TOML parser in src/src/toml/toml.rs: the Value enum, the *)
(* character scanner, the recursive-descent value parser, the document     *)
(* builder (ValueBuilder), the dotted-path lookup and the driver loop of   *)
(* Parser::parse.                                                          *)
(*                                                                         *)
(* Text is a sequence of one-character strings; the Option<char> None is   *)
(* the empty string.  Keys and section names are sequences of characters.  *)
(* The contents of a String value are code points (numbers), because the   *)
(* \uXXXX escape builds a character from a number.                         *)
(***************************************************************************)
EXTENDS Integers, Sequences, FiniteSets, TLC

VARIABLES
    doc,           \* the whole input handed to parse_from_buffer (never changes)
    rest,          \* Parser.current_char followed by what rd still holds
    line,          \* Parser.line
    root,          \* ValueBuilder.root
    current_path,  \* ValueBuilder.current_path
    status,        \* where Parser::parse is: "running", "ok" (returned true), "fail"
    result,        \* what parse_from_buffer returned, Pending before it returns
    hist,          \* the calls made so far, each with its arguments and outcome
    brk,           \* first characters of the array elements whose parse gave NoValue
    dbg,           \* the debug! messages of the value parser written so far
    lk,            \* the last call of Value::lookup on the result: query and answer
    stack          \* when the parser is followed turn by turn through an array: the
                   \* frame of Parser::parse (ident) and, above it, one frame of
                   \* parse_value (arr) for every array that is open

vars == <<doc, rest, line, root, current_path, status, result, hist, brk, dbg, lk, stack>>

----------------------------------------------------------------------------
(* Bounds of the model. *)

\* most text fragments an input document is put together from
MaxChunks == 3
\* most characters of the value text in the array documents
MaxValLen == 7
\* most builder calls in a run of the builder alone
MaxOps == 4
\* most segments of a lookup query
MaxSegs == 3
MaxSecChunks == 4
\* most characters between the \u of a string and what follows the escape
MaxHex == 4
\* most elements of an array in the documents of arrays of every kind of value
MaxElems == 3
\* most digits behind the leading digits of a long digit run
MaxTail == 2
\* most pieces of the array text of a document followed turn by turn
MaxUnits == 4

----------------------------------------------------------------------------
(* The Value enum. *)

\* A u64 is four digits to the base 65536, the lowest first: the numbers of the
\* checker have 32 bits.  U64(n) is the u64 of a number below 2^31.
U64(n) == <<n % 65536, n \div 65536, 0, 0>>

\* x as u16
as_u16(x) == x[1]

NoValue == [k |-> "NoValue"]
Boolean(b) == [k |-> "Boolean", b |-> b]
\* Unsigned(u64) and Signed(u64): n is a u64, for Signed the magnitude
Unsigned(n) == [k |-> "Unsigned", n |-> n]
Signed(n) == [k |-> "Signed", n |-> n]
\* An f64 is kept exact: integer part, digits after the dot, sign factor.
Float(n, frac, mul) == [k |-> "Float", n |-> n, frac |-> frac, mul |-> mul]
String(s) == [k |-> "String", s |-> s]
Datetime(y, m, d, h, mi, s) == [k |-> "Datetime", dt |-> <<y, m, d, h, mi, s>>]
Array(v) == [k |-> "Array", v |-> v]
TableArray(v) == [k |-> "TableArray", v |-> v]
Table(m) == [k |-> "Table", m |-> m]

\* HashMap::new()
EmptyMap == <<>>

IsInt(v) == v.k \in {"Unsigned", "Signed"}

\* a check that takes any two values for values of one type
have_equiv_types_any(v1, v2) == TRUE

have_equiv_types(v1, v2) ==
    \/ v1.k = "Boolean" /\ v2.k = "Boolean"
    \/ IsInt(v1) /\ IsInt(v2)
    \/ v1.k = "Float" /\ v2.k = "Float"
    \/ v1.k = "String" /\ v2.k = "String"
    \/ v1.k = "Datetime" /\ v2.k = "Datetime"
    \/ v1.k = "Array" /\ v2.k = "Array"

----------------------------------------------------------------------------
(* Characters. *)

NoChar == ""
NL == "\n"
CR == "\r"
TAB == "\t"
FF == "\f"
\* the backspace character (8), which no string of this language can hold
BS == "<backspace>"
QUOTE == "\""
BACKSLASH == "\\"

DecDigits == <<"0", "1", "2", "3", "4", "5", "6", "7", "8", "9">>
HexLower == <<"a", "b", "c", "d", "e", "f">>
HexUpper == <<"A", "B", "C", "D", "E", "F">>

IndexOf(seq, c) == IF \E i \in DOMAIN seq : seq[i] = c
                   THEN CHOOSE i \in DOMAIN seq : seq[i] = c
                   ELSE 0

\* char::to_digit(c, radix) for radix 10 and 16; -1 is None
to_digit(c, radix) ==
    IF IndexOf(DecDigits, c) > 0 THEN IndexOf(DecDigits, c) - 1
    ELSE IF radix = 16 /\ IndexOf(HexLower, c) > 0 THEN 9 + IndexOf(HexLower, c)
    ELSE IF radix = 16 /\ IndexOf(HexUpper, c) > 0 THEN 9 + IndexOf(HexUpper, c)
    ELSE -1

\* The printable ASCII characters in code order, from the space (32) on.  The
\* grave accent (96) cannot be written in a string of this language; its place
\* is held by a name no input character equals.
AsciiChars == <<
    " ", "!", QUOTE, "#", "$", "%", "&", "'", "(", ")", "*", "+", ",", "-", ".", "/",
    "0", "1", "2", "3", "4", "5", "6", "7", "8", "9", ":", ";", "<", "=", ">", "?",
    "@", "A", "B", "C", "D", "E", "F", "G", "H", "I", "J", "K", "L", "M", "N", "O",
    "P", "Q", "R", "S", "T", "U", "V", "W", "X", "Y", "Z", "[", BACKSLASH, "]", "^", "_",
    "<grave>", "a", "b", "c", "d", "e", "f", "g", "h", "i", "j", "k", "l", "m", "n", "o",
    "p", "q", "r", "s", "t", "u", "v", "w", "x", "y", "z", "{", "|", "}", "~" >>

\* the code point of a character of the input (c as u32)
Ord(c) == IF c = TAB THEN 9
          ELSE IF c = NL THEN 10
          ELSE IF c = BS THEN 8
          ELSE IF c = FF THEN 12
          ELSE IF c = CR THEN 13
          ELSE 31 + IndexOf(AsciiChars, c)

\* a from_u32 that takes every number for a character
from_u32_any(n) == n

\* char::from_u32: None (-1) for the surrogates, which are no characters
from_u32(n) == IF n >= 55296 /\ n <= 57343 THEN -1 ELSE n

----------------------------------------------------------------------------
(* The scanner: a parser state p is [rest, line]. *)

\* F applied to the value of v, which is worked out once: the "let x = v;" of the
\* source, for a v that is a call
With(v, F(_)) == CHOOSE y \in {F(x) : x \in {v}} : TRUE

ch(p) == IF p.rest = <<>> THEN NoChar ELSE Head(p.rest)

eos(p) == p.rest = <<>>

\* rd.read_char() keeps answering None at the end of the input
advance(p) == IF p.rest = <<>> THEN p ELSE [p EXCEPT !.rest = Tail(@)]

advance_if(p, c) ==
    IF ~eos(p) /\ ch(p) = c THEN [ok |-> TRUE, p |-> advance(p)]
    ELSE [ok |-> FALSE, p |-> p]

\* d = -1 is None
read_digit(p, radix) ==
    IF eos(p) THEN [d |-> -1, p |-> p]
    ELSE IF to_digit(ch(p), radix) >= 0
         THEN [d |-> to_digit(ch(p), radix), p |-> advance(p)]
         ELSE [d |-> -1, p |-> p]

read_two_digits(p) ==
    With(read_digit(p, 10), LAMBDA r1 :
    With(read_digit(r1.p, 10), LAMBDA r2 :
        [d |-> IF r1.d >= 0 /\ r2.d >= 0 THEN r1.d * 10 + r2.d ELSE -1, p |-> r2.p]))

\* the digits of x * 10 + carry from the lowest on, and one more for what goes
\* beyond them
RECURSIVE mul10_add_carry(_, _)
mul10_add_carry(x, carry) ==
    IF x = <<>> THEN <<carry>>
    ELSE <<(Head(x) * 10 + carry) % 65536>>
         \o mul10_add_carry(Tail(x), (Head(x) * 10 + carry) \div 65536)

\* an accumulation that stops at the largest u64 instead of wrapping
saturating_mul10_add(num, n) ==
    IF mul10_add_carry(num, n)[5] > 0 THEN <<65535, 65535, 65535, 65535>>
    ELSE SubSeq(mul10_add_carry(num, n), 1, 4)

\* num * 10 + (n as u64) in u64 arithmetic, which wraps: what goes beyond 64 bits
\* is dropped
wrapping_mul10_add(num, n) == SubSeq(mul10_add_carry(num, n), 1, 4)

RECURSIVE read_digits_loop(_, _, _)
read_digits_loop(p, num, ndigits) ==
    With(read_digit(p, 10), LAMBDA r :
        IF r.d >= 0 THEN read_digits_loop(r.p, wrapping_mul10_add(num, r.d), ndigits + 1)
        ELSE [n |-> num, ndigits |-> ndigits, p |-> r.p])

\* (Option<u64>, uint): ndigits = 0 is (None, 0), and n is of no account then
read_digits(p) ==
    With(read_digit(p, 10), LAMBDA r :
        IF r.d >= 0 THEN read_digits_loop(r.p, U64(r.d), 1)
        ELSE [n |-> U64(0), ndigits |-> 0, p |-> r.p])

RECURSIVE read_float_mantissa_loop(_, _)
read_float_mantissa_loop(p, frac) ==
    With(read_digit(p, 10), LAMBDA r :
        IF r.d >= 0 THEN read_float_mantissa_loop(r.p, Append(frac, r.d))
        ELSE [frac |-> frac, p |-> r.p])

read_float_mantissa(p) == read_float_mantissa_loop(p, <<>>)

parse_float_rest(p, n, mul) ==
    IF eos(p) THEN [val |-> NoValue, p |-> p]
    ELSE IF to_digit(ch(p), 10) >= 0
         THEN With(read_float_mantissa(p), LAMBDA r :
                  [val |-> Float(n, r.frac, mul), p |-> r.p])
         ELSE [val |-> NoValue, p |-> p]

RECURSIVE skip_whitespaces(_)
skip_whitespaces(p) ==
    IF ch(p) \in {" ", TAB, CR} THEN skip_whitespaces(advance(p))
    ELSE IF ch(p) = NL THEN skip_whitespaces([advance(p) EXCEPT !.line = @ + 1])
    ELSE p

RECURSIVE skip_comment_loop(_)
skip_comment_loop(p) ==
    With(advance(p), LAMBDA q :
        IF ch(q) = NL THEN [advance(q) EXCEPT !.line = @ + 1]
        ELSE IF eos(q) THEN q
        ELSE skip_comment_loop(q))

skip_comment(p) == skip_comment_loop(p)

RECURSIVE skip_whitespaces_and_comments(_)
skip_whitespaces_and_comments(p) ==
    IF ch(p) \in {" ", TAB, CR} THEN skip_whitespaces_and_comments(advance(p))
    ELSE IF ch(p) = NL
         THEN skip_whitespaces_and_comments([advance(p) EXCEPT !.line = @ + 1])
    ELSE IF ch(p) = "#" THEN skip_whitespaces_and_comments(skip_comment(p))
    ELSE p

\* read_token with the closure f given as the set of characters f rejects
RECURSIVE read_token_loop(_, _, _)
read_token_loop(p, stop, token) ==
    IF eos(p) \/ ch(p) \in stop THEN [token |-> token, p |-> p]
    ELSE read_token_loop(advance(p), stop, Append(token, ch(p)))

read_token(p, stop) == read_token_loop(p, stop, <<>>)

parse_section_identifier(p) == read_token(p, {TAB, NL, CR, "[", "]"})

----------------------------------------------------------------------------
(* The value parser. *)

\* A result of parse_string: ok = FALSE is None.
StrFail(p) == [ok |-> FALSE, s |-> <<>>, p |-> p]

\* the one-character escapes of parse_string and the character each appends
SimpleEscapes == <<"b", "t", "n", "f", "r", QUOTE, "/", BACKSLASH>>
EscapeCode == <<8, 9, 10, 12, 13, 34, 47, 92>>

\* the \uXXXX escape, entered behind the 'u'
RECURSIVE parse_string_loop(_, _)
parse_unicode_escape(p, str) ==
    With(read_digit(p, 16), LAMBDA r1 :
    With(read_digit(r1.p, 16), LAMBDA r2 :
    With(read_digit(r2.p, 16), LAMBDA r3 :
    With(read_digit(r3.p, 16), LAMBDA r4 :
        IF r1.d >= 0 /\ r2.d >= 0 /\ r3.d >= 0 /\ r4.d >= 0
        THEN With(from_u32(((r1.d * 16 + r2.d) * 16 + r3.d) * 16 + r4.d), LAMBDA c :
                 IF c >= 0 THEN parse_string_loop(r4.p, Append(str, c))
                 ELSE StrFail(r4.p))
        ELSE StrFail(r4.p)))))

\* the escape behind a backslash
parse_escape(q, str) ==
    IF eos(q) THEN StrFail(q)
    ELSE IF IndexOf(SimpleEscapes, ch(q)) > 0
         THEN parse_string_loop(advance(q),
                  Append(str, EscapeCode[IndexOf(SimpleEscapes, ch(q))]))
    ELSE IF ch(q) = "u" THEN parse_unicode_escape(advance(q), str)
    ELSE StrFail(q)

parse_string_loop(p, str) ==
    IF eos(p) THEN StrFail(p)
    ELSE IF ch(p) \in {CR, NL, FF, BS} THEN StrFail(p)
    ELSE IF ch(p) = BACKSLASH THEN parse_escape(advance(p), str)
    ELSE IF ch(p) = QUOTE THEN [ok |-> TRUE, s |-> str, p |-> advance(p)]
    ELSE parse_string_loop(advance(p), Append(str, Ord(ch(p))))

parse_string(p) ==
    With(advance_if(p, QUOTE), LAMBDA a :
        IF ~a.ok THEN StrFail(a.p) ELSE parse_string_loop(a.p, <<>>))

\* A result of parse_value: the value, the parser state it leaves, the debug!
\* messages it wrote, and brk: for every array element slot whose parse_value gave
\* NoValue (the arm that ends the element loop), the character that slot began with.
Ret(v, p) == [val |-> v, p |-> p, dbg |-> {}, brk |-> {}]
RetDbg(v, p, msg) == [val |-> v, p |-> p, dbg |-> {msg}, brk |-> {}]

\* a range check that lets every month, day, hour, minute and second through
datetime_in_range_any(m, d, h, min, s) == TRUE

\* the guard of the match on (year, month, day, hour, min, sec)
datetime_in_range(m, d, h, min, s) ==
    m > 0 /\ m <= 12 /\ d > 0 /\ d <= 31 /\ h <= 24 /\ min <= 60 /\ s <= 60

\* the datetime arm, entered after the year's four digits and the '-' behind them
parse_datetime_rest(p, year) ==
    With(read_two_digits(p), LAMBDA month :
    IF month.d < 0 THEN RetDbg(NoValue, month.p, "Invalid Datetime") ELSE
    With(advance_if(month.p, "-"), LAMBDA a1 :
    IF ~a1.ok THEN RetDbg(NoValue, a1.p, "Invalid Datetime") ELSE
    With(read_two_digits(a1.p), LAMBDA day :
    IF day.d < 0 THEN RetDbg(NoValue, day.p, "Invalid Datetime") ELSE
    With(advance_if(day.p, "T"), LAMBDA a2 :
    IF ~a2.ok THEN RetDbg(NoValue, a2.p, "Invalid Datetime") ELSE
    With(read_two_digits(a2.p), LAMBDA hour :
    IF hour.d < 0 THEN RetDbg(NoValue, hour.p, "Invalid Datetime") ELSE
    With(advance_if(hour.p, ":"), LAMBDA a3 :
    IF ~a3.ok THEN RetDbg(NoValue, a3.p, "Invalid Datetime") ELSE
    With(read_two_digits(a3.p), LAMBDA min :
    IF min.d < 0 THEN RetDbg(NoValue, min.p, "Invalid Datetime") ELSE
    With(advance_if(min.p, ":"), LAMBDA a4 :
    IF ~a4.ok THEN RetDbg(NoValue, a4.p, "Invalid Datetime") ELSE
    With(read_two_digits(a4.p), LAMBDA sec :
    IF sec.d < 0 THEN RetDbg(NoValue, sec.p, "Invalid Datetime") ELSE
    With(advance_if(sec.p, "Z"), LAMBDA a5 :
    IF ~a5.ok THEN RetDbg(NoValue, a5.p, "Invalid Datetime") ELSE
    IF datetime_in_range(month.d, day.d, hour.d, min.d, sec.d)
    THEN Ret(Datetime(as_u16(year), month.d, day.d, hour.d, min.d, sec.d), a5.p)
    ELSE RetDbg(NoValue, a5.p, "Invalid Datetime range")))))))))))

\* the literal true or false after its first letter: advance_if on each letter in
\* turn, stopping at the first that does not match
RECURSIVE match_literal(_, _)
match_literal(p, letters) ==
    IF letters = <<>> THEN [ok |-> TRUE, p |-> p]
    ELSE With(advance_if(p, Head(letters)), LAMBDA a :
             IF a.ok THEN match_literal(a.p, Tail(letters)) ELSE a)

RECURSIVE parse_value(_)
RECURSIVE parse_array_loop(_, _, _, _)

\* the loop of the '[' arm.  ret = TRUE is its early return of NoValue.
parse_array_loop(p, arr, dbgs, brks) ==
    With(parse_value(p), LAMBDA r :
        IF r.val = NoValue
        THEN [ret |-> FALSE, arr |-> arr, p |-> r.p, dbg |-> dbgs \cup r.dbg,
              brk |-> brks \cup r.brk \cup {ch(skip_whitespaces_and_comments(p))}]
        ELSE IF arr # <<>> /\ ~have_equiv_types(Head(arr), r.val)
             THEN [ret |-> TRUE, arr |-> arr, p |-> r.p,
                   dbg |-> dbgs \cup r.dbg \cup {"Incompatible element types in array"},
                   brk |-> brks \cup r.brk]
             ELSE With(advance_if(skip_whitespaces_and_comments(r.p), ","), LAMBDA c :
                      IF c.ok
                      THEN parse_array_loop(c.p, Append(arr, r.val),
                                            dbgs \cup r.dbg, brks \cup r.brk)
                      ELSE [ret |-> FALSE, arr |-> Append(arr, r.val), p |-> c.p,
                            dbg |-> dbgs \cup r.dbg, brk |-> brks \cup r.brk]))

\* the '-' arm, entered behind the '-'
parse_negative(p) ==
    With(read_digits(p), LAMBDA r :
        IF r.ndigits > 0
        THEN IF ch(r.p) = "."
             THEN With(parse_float_rest(advance(r.p), r.n, -1), LAMBDA f : Ret(f.val, f.p))
             ELSE Ret(Signed(r.n), r.p)
        ELSE Ret(NoValue, r.p))

\* a digit arm that takes a '-' for the start of a datetime only behind four digits
parse_number_lenient(p) ==
    With(read_digits(p), LAMBDA r :
        IF ch(r.p) = "."
        THEN With(parse_float_rest(advance(r.p), r.n, 1), LAMBDA f : Ret(f.val, f.p))
        ELSE IF ch(r.p) = "-" /\ r.ndigits = 4
             THEN parse_datetime_rest(advance(r.p), r.n)
        ELSE Ret(Unsigned(r.n), r.p))

\* the '0' .. '9' arm
parse_number(p) ==
    With(read_digits(p), LAMBDA r :
        IF ch(r.p) = "."
        THEN With(parse_float_rest(advance(r.p), r.n, 1), LAMBDA f : Ret(f.val, f.p))
        ELSE IF ch(r.p) = "-"
             THEN IF r.ndigits # 4
                  THEN RetDbg(NoValue, r.p, "Invalid Datetime")
                  ELSE parse_datetime_rest(advance(r.p), r.n)
        ELSE Ret(Unsigned(r.n), r.p))

\* the '[' arm, entered behind the '['
parse_array(p) ==
    With(parse_array_loop(p, <<>>, {}, {}), LAMBDA l :
        IF l.ret THEN [val |-> NoValue, p |-> l.p, dbg |-> l.dbg, brk |-> l.brk]
        ELSE With(advance_if(skip_whitespaces_and_comments(l.p), "]"), LAMBDA c :
                 IF c.ok
                 THEN [val |-> Array(l.arr), p |-> c.p, dbg |-> l.dbg, brk |-> l.brk]
                 ELSE [val |-> NoValue, p |-> c.p, dbg |-> l.dbg, brk |-> l.brk]))

\* parse_value behind its skip_whitespaces_and_comments
parse_value_at(p) ==
    IF eos(p) THEN Ret(NoValue, p)
    ELSE IF ch(p) = "-" THEN parse_negative(advance(p))
    ELSE IF to_digit(ch(p), 10) >= 0 THEN parse_number(p)
    ELSE IF ch(p) = "t"
         THEN With(match_literal(advance(p), <<"r", "u", "e">>), LAMBDA m :
                  IF m.ok THEN Ret(Boolean(TRUE), m.p) ELSE Ret(NoValue, m.p))
    ELSE IF ch(p) = "f"
         THEN With(match_literal(advance(p), <<"a", "l", "s", "e">>), LAMBDA m :
                  IF m.ok THEN Ret(Boolean(FALSE), m.p) ELSE Ret(NoValue, m.p))
    ELSE IF ch(p) = "[" THEN parse_array(advance(p))
    ELSE IF ch(p) = QUOTE
         THEN With(parse_string(p), LAMBDA s :
                  IF s.ok THEN Ret(String(s.s), s.p) ELSE Ret(NoValue, s.p))
    ELSE Ret(NoValue, p)

parse_value(p0) == parse_value_at(skip_whitespaces_and_comments(p0))

----------------------------------------------------------------------------
(* HashMap<~str, Value>: a function from keys to values. *)

\* MutableMap::insert: TRUE when the key was new.  An existing value for the key
\* is replaced by the new one either way (insert is swap(key, value).is_none()).
insert(ht, key, val) == [ok |-> key \notin DOMAIN ht, ht |-> (key :> val) @@ ht]

\* str::split_str(sep): the pieces between the separators, empty pieces included
RECURSIVE split_str_loop(_, _, _, _)
split_str_loop(s, sep, cur, acc) ==
    IF s = <<>> THEN Append(acc, cur)
    ELSE IF Head(s) = sep THEN split_str_loop(Tail(s), sep, <<>>, Append(acc, cur))
    ELSE split_str_loop(Tail(s), sep, Append(cur, Head(s)), acc)

split_str(s, sep) == split_str_loop(s, sep, <<>>, <<>>)

----------------------------------------------------------------------------
(* The document builder.  A result is [ok, ht, panic]: what the function      *)
(* returned, the table as the function left it (ht is a &mut), and whether an *)
(* assert! failed.                                                            *)

Res(ok, ht) == [ok |-> ok, ht |-> ht, panic |-> FALSE]
Panic(ht) == [ok |-> FALSE, ht |-> ht, panic |-> TRUE]

\* a builder without the check for empty keys
EmptySegment_unchecked(seg) == FALSE

\* path.head().is_empty(): the segment is an empty key
EmptySegment(seg) == seg = <<>>

\* a builder that descends into the first element of a TableArray
first_table(table_array) == 1

\* table_array.len()-1, the place of the element the builder descends into (as a
\* place of a sequence that starts at 1)
last_table(table_array) == Len(table_array)

\* a builder that rejects a plain header for a Table that is already there
reopen_rejected(is_array) == FALSE

\* the terminal segment names a Table: a plain header opens it again, a double
\* one is a duplicate
reopen(is_array) == ~is_array

\* a builder that puts the new Table of a repeated [[header]] in front
push_front(table_array) == <<Table(EmptyMap)>> \o table_array

\* table_array.push(Table(HashMap::new()))
push_table(table_array) == Append(table_array, Table(EmptyMap))

\* a builder that makes the TableArray of a first [[header]] without a Table in it
new_table_array_empty == TableArray(<<>>)

\* TableArray(~[Table(HashMap::new())])
new_table_array == TableArray(<<Table(EmptyMap)>>)

\* a builder that accepts a header whose segment names a value of another kind
wrong_type_accepted(ht) == Res(TRUE, ht)

\* the segment names a value that is neither a Table nor a TableArray:
\* debug!("Wrong type/duplicate key"); return false
wrong_type(ht) == Res(FALSE, ht)

\* a builder that puts the Table of a new segment in place before the segments
\* behind it are known to be good
create_failed_leaving(ht, head, r) ==
    [r EXCEPT !.ht = (head :> Table(r.ht)) @@ ht]

\* if !ok { return false }: the local table of the new segment is dropped, ht is
\* as it was
create_failed(ht, head, r) == [r EXCEPT !.ht = ht]

RECURSIVE recursive_create_tree(_, _, _)
recursive_create_tree(path, ht, is_array) ==
    LET head == Head(path)
        term_rec == Len(path) = 1
    IN  IF EmptySegment(head) THEN Res(FALSE, ht)
        ELSE IF head \in DOMAIN ht /\ ht[head].k = "TableArray"
             THEN LET table_array == ht[head].v
                      n == last_table(table_array)
                  IN  IF Len(table_array) = 0 THEN Panic(ht)
                      ELSE IF term_rec
                           THEN IF is_array
                                THEN Res(TRUE, [ht EXCEPT ![head] =
                                         TableArray(push_table(table_array))])
                                ELSE Res(FALSE, ht)
                      ELSE IF table_array[n].k = "Table"
                           THEN With(recursive_create_tree(Tail(path),
                                         table_array[n].m, is_array), LAMBDA r :
                                    [r EXCEPT !.ht = [ht EXCEPT ![head] =
                                        TableArray([table_array EXCEPT ![n] = Table(r.ht)])]])
                           ELSE Panic(ht)
        ELSE IF head \in DOMAIN ht /\ ht[head].k = "Table"
             THEN IF term_rec
                  THEN Res(reopen(is_array), ht)
                  ELSE With(recursive_create_tree(Tail(path), ht[head].m, is_array),
                            LAMBDA r : [r EXCEPT !.ht = [ht EXCEPT ![head] = Table(r.ht)]])
        ELSE IF head \in DOMAIN ht THEN wrong_type(ht)
        ELSE IF term_rec
             THEN With(insert(ht, head, IF is_array
                                        THEN new_table_array
                                        ELSE Table(EmptyMap)),
                       LAMBDA i : [ok |-> i.ok, ht |-> i.ht, panic |-> ~i.ok])
             ELSE With(recursive_create_tree(Tail(path), EmptyMap, is_array), LAMBDA r :
                      IF ~r.ok THEN create_failed(ht, head, r)
                      ELSE With(insert(ht, head, Table(r.ht)),
                                LAMBDA i : [ok |-> i.ok, ht |-> i.ht, panic |-> ~i.ok]))

RECURSIVE insert_value(_, _, _, _)
insert_value(path, key, ht, val) ==
    IF path = <<>>
    THEN With(insert(ht, key, val), LAMBDA i : Res(i.ok, i.ht))
    ELSE LET head == Head(path)
         IN  IF head \in DOMAIN ht /\ ht[head].k = "Table"
             THEN With(insert_value(Tail(path), key, ht[head].m, val),
                       LAMBDA r : [r EXCEPT !.ht = [ht EXCEPT ![head] = Table(r.ht)]])
             ELSE IF head \in DOMAIN ht /\ ht[head].k = "TableArray"
                  THEN LET table_array == ht[head].v
                           n == last_table(table_array)
                       IN  IF Len(table_array) = 0 THEN Panic(ht)
                           ELSE IF table_array[n].k = "Table"
                                THEN With(insert_value(Tail(path), key,
                                              table_array[n].m, val), LAMBDA r :
                                         [r EXCEPT !.ht = [ht EXCEPT ![head] =
                                             TableArray([table_array EXCEPT ![n] =
                                                 Table(r.ht)])]])
                                ELSE Panic(ht)
             ELSE Res(FALSE, ht)

\* Visitor::section for ValueBuilder: [ok, root, current_path, panic]
section(rt, name, is_array) ==
    With(split_str(name, "."), LAMBDA path :
    With(recursive_create_tree(path, rt, is_array), LAMBDA r :
        [ok |-> r.ok, root |-> r.ht, current_path |-> path, panic |-> r.panic]))

\* Visitor::pair for ValueBuilder: [ok, root, panic]
pair(rt, cur, key, val) ==
    With(insert_value(cur, key, rt, val), LAMBDA r :
        [ok |-> r.ok, root |-> r.ht, panic |-> r.panic])

----------------------------------------------------------------------------
(* Lookup.  The Option None is NotFound. *)

NotFound == [k |-> "None"]

Key(key) == [t |-> "Key", key |-> key]
Idx(idx) == [t |-> "Idx", idx |-> idx]

RECURSIVE DecimalValue(_, _)
DecimalValue(s, acc) ==
    IF s = <<>> THEN acc ELSE DecimalValue(Tail(s), acc * 10 + to_digit(Head(s), 10))

\* FromStr::from_str for uint, on text without a sign character: the number a
\* non-empty run of decimal digits spells, -1 (None) for any other text
from_str_uint(t) ==
    IF t # <<>> /\ \A i \in DOMAIN t : to_digit(t[i], 10) >= 0
    THEN DecimalValue(t, 0)
    ELSE -1

\* a lookup_key that steps over a key it does not find
lookup_key_skipping(v, key) ==
    IF v.k = "Table" /\ key \in DOMAIN v.m THEN v.m[key] ELSE v

lookup_key(v, key) ==
    IF v.k = "Table" /\ key \in DOMAIN v.m THEN v.m[key] ELSE NotFound

lookup_vec(v, idx) ==
    IF v.k = "Array" /\ idx < Len(v.v) THEN v.v[idx + 1] ELSE NotFound

lookup_idx(v, idx) ==
    IF v.k = "TableArray" /\ idx < Len(v.v) THEN v.v[idx + 1] ELSE NotFound

\* one element of the path applied to one node
lookup_elt(v, elt) ==
    IF elt.t = "Key" THEN lookup_key(v, elt.key) ELSE lookup_idx(v, elt.idx)

RECURSIVE lookup_path_elts(_, _)
lookup_path_elts(v, path) ==
    IF path = <<>> THEN v
    ELSE With(lookup_elt(v, Head(path)), LAMBDA a :
             IF a = NotFound THEN NotFound ELSE lookup_path_elts(a, Tail(path)))

\* the closure of Value::lookup that turns a piece of the query into a PathElement
path_elt(t) == IF from_str_uint(t) >= 0 THEN Idx(from_str_uint(t)) ELSE Key(t)

lookup(v, path) ==
    With(split_str(path, "."), LAMBDA paths :
        lookup_path_elts(v, [i \in DOMAIN paths |-> path_elt(paths[i])]))

----------------------------------------------------------------------------
(* The entry point and the driver loop. *)

\* Parser::new: the first character is read, and counted if it is a newline
parser_new(text) ==
    [rest |-> text, line |-> IF text # <<>> /\ Head(text) = NL THEN 2 ELSE 1]

\* a parse_from_buffer that hands out the tree built so far when the parse failed
parse_from_buffer_partial(ok, rt) == Table(rt)

\* what parse_from_buffer returns once Parser::parse has returned ok
parse_from_buffer(ok, rt) == IF ok THEN Table(rt) ELSE NoValue

\* parse_from_buffer has not returned
Pending == [k |-> "Pending"]

\* Value::lookup has not been called
NoLookup == [called |-> FALSE]

\* the decimal digits of a natural number
RECURSIVE ToDecimal(_)
ToDecimal(n) ==
    IF n < 10 THEN <<DecDigits[n + 1]>>
    ELSE Append(ToDecimal(n \div 10), DecDigits[(n % 10) + 1])

\* Where insert_value's walk down the path goes, written as the pieces of a lookup
\* query: behind every segment that names a TableArray stands the index of that
\* array's last element, the one the walk descends into.
RECURSIVE IndexedPath(_, _)
IndexedPath(ht, path) ==
    IF path = <<>> THEN <<>>
    ELSE LET head == Head(path)
         IN  IF head \in DOMAIN ht /\ ht[head].k = "Table"
             THEN <<head>> \o IndexedPath(ht[head].m, Tail(path))
             ELSE IF /\ head \in DOMAIN ht /\ ht[head].k = "TableArray"
                     /\ Len(ht[head].v) > 0
                     /\ ht[head].v[Len(ht[head].v)].k = "Table"
                  THEN <<head, ToDecimal(Len(ht[head].v) - 1)>>
                       \o IndexedPath(ht[head].v[Len(ht[head].v)].m, Tail(path))
                  ELSE path

\* The entries of hist.  A header: the identifier read, single or double brackets,
\* whether Visitor::section was called (the header was well-formed) and whether the
\* header was accepted.  A pair: the builder's current path and where it leads, the
\* key, the value parsed (NoValue when none was), whether Visitor::pair was called
\* and whether the pair was accepted.
SectionEv(name, is_array, called, ok) ==
    [op |-> "section", name |-> name, is_array |-> is_array, called |-> called, ok |-> ok]
PairEv(path, at, key, val, called, ok) ==
    [op |-> "pair", path |-> path, at |-> at, key |-> key, val |-> val,
     called |-> called, ok |-> ok]

\* the parser at the top of the loop of Parser::parse, whitespace and comments skipped
Cur == skip_whitespaces_and_comments([rest |-> rest, line |-> line])

\* the loop of Parser::parse reaches the end of the input: parse returns true
ParseEos ==
    /\ status = "running"
    /\ eos(Cur)
    /\ rest' = Cur.rest
    /\ line' = Cur.line
    /\ status' = "ok"
    /\ result' = parse_from_buffer(TRUE, root)
    /\ UNCHANGED <<doc, root, current_path, hist, brk, dbg, lk, stack>>

\* The text of a header, from its first '[' on: the identifier, single or double
\* brackets, whether the header is well-formed (a non-empty identifier and its
\* closing brackets), and the parser behind what was read.
read_header_name(p, double_section) ==
    With(parse_section_identifier(p), LAMBDA id :
        IF id.token = <<>>
        THEN [name |-> id.token, is_array |-> double_section, ok |-> FALSE, p |-> id.p]
        ELSE With(advance_if(id.p, "]"), LAMBDA a1 :
                 IF ~a1.ok \/ ~double_section
                 THEN [name |-> id.token, is_array |-> double_section,
                       ok |-> a1.ok, p |-> a1.p]
                 ELSE With(advance_if(a1.p, "]"), LAMBDA a2 :
                          [name |-> id.token, is_array |-> double_section,
                           ok |-> a2.ok, p |-> a2.p])))

read_header(p) ==
    With(advance(p), LAMBDA p1 :
        IF ch(p1) = "[" THEN read_header_name(advance(p1), TRUE)
        ELSE read_header_name(p1, FALSE))

\* The text of a pair: the key, whether the '=' was there, and behind it the
\* result of parse_value.
read_pair(p) ==
    With(read_token(p, {" ", TAB, CR, NL, "="}), LAMBDA id :
    With(advance_if(skip_whitespaces(id.p), "="), LAMBDA a :
        IF ~a.ok THEN [key |-> id.token, assign |-> FALSE, v |-> Ret(NoValue, a.p)]
        ELSE [key |-> id.token, assign |-> TRUE, v |-> parse_value(a.p)]))

\* how Parser::parse goes on after a call of the visitor
AfterCall(r) == IF r.panic THEN "panic" ELSE IF r.ok THEN "running" ELSE "fail"

\* one turn of the loop on a '[': a section header
ParseSection ==
    /\ status = "running"
    /\ ch(Cur) = "["
    /\ \E h \in {read_header(Cur)} :
         /\ rest' = h.p.rest
         /\ line' = h.p.line
         /\ IF h.ok
            THEN \E s \in {section(root, h.name, h.is_array)} :
                   /\ root' = s.root
                   /\ current_path' = s.current_path
                   /\ hist' = Append(hist, SectionEv(h.name, h.is_array, TRUE, s.ok))
                   /\ status' = AfterCall(s)
                   /\ result' = IF AfterCall(s) = "fail"
                                THEN parse_from_buffer(FALSE, s.root)
                                ELSE Pending
            ELSE /\ UNCHANGED <<root, current_path>>
                 /\ hist' = Append(hist, SectionEv(h.name, h.is_array, FALSE, FALSE))
                 /\ status' = "fail"
                 /\ result' = parse_from_buffer(FALSE, root)
    /\ UNCHANGED <<doc, brk, dbg, lk, stack>>

\* one turn of the loop on anything else: a key, '=', and a value
ParsePair ==
    /\ status = "running"
    /\ ~eos(Cur)
    /\ ch(Cur) # "["
    /\ \E t \in {read_pair(Cur)} :
         /\ rest' = t.v.p.rest
         /\ line' = t.v.p.line
         /\ brk' = brk \cup t.v.brk
         /\ dbg' = dbg \cup t.v.dbg
         /\ IF t.v.val # NoValue
            THEN \E pr \in {pair(root, current_path, t.key, t.v.val)} :
                   /\ root' = pr.root
                   /\ hist' = Append(hist, PairEv(current_path,
                                  IndexedPath(root, current_path),
                                  t.key, t.v.val, TRUE, pr.ok))
                   /\ status' = AfterCall(pr)
                   /\ result' = IF AfterCall(pr) = "fail"
                                THEN parse_from_buffer(FALSE, pr.root)
                                ELSE Pending
            ELSE /\ UNCHANGED root
                 /\ hist' = Append(hist, PairEv(current_path,
                                IndexedPath(root, current_path),
                                t.key, NoValue, FALSE, FALSE))
                 /\ status' = "fail"
                 /\ result' = parse_from_buffer(FALSE, root)
    /\ UNCHANGED <<doc, current_path, lk, stack>>

\* the caller looks a query up in the tree a successful parse returned (a run of
\* the model follows one such call)
Lookup(q) ==
    /\ status = "ok"
    /\ ~lk.called
    /\ lk' = [called |-> TRUE, q |-> q, res |-> lookup(result, q)]
    /\ UNCHANGED <<doc, rest, line, root, current_path, status, result, hist, brk, dbg,
                   stack>>

----------------------------------------------------------------------------
(* The parser followed turn by turn through the element loop of the '[' arm. *)

\* the frames of stack
ParseFrame(ident) == [fn |-> "parse", ident |-> ident]
ArrayFrame(arr) == [fn |-> "parse_value", arr |-> arr]
Pop(stk) == SubSeq(stk, 1, Len(stk) - 1)

\* the front of the pair arm: the key, the '=' and what parse_value skips before
\* it looks at the first character of the value
read_key(p) ==
    With(read_token(p, {" ", TAB, CR, NL, "="}), LAMBDA id :
    With(advance_if(skip_whitespaces(id.p), "="), LAMBDA a :
        [token |-> id.token, assign |-> a.ok, p |-> skip_whitespaces_and_comments(a.p)]))

\* the pair at p has its '=' and a value that begins with '['
StartsArray(p) == \E k \in {read_key(p)} : k.assign /\ ch(k.p) = "["

\* a '[' arm that begins its loop without stepping over the '['
array_begin_stay(p) == p

\* '[' => { self.advance(); let mut arr = ~[]; ...
array_begin(p) == advance(p)

\* What follows the parse_value of an element in the loop of the top frame of stk,
\* up to the next turn of a loop or to the return of the value of the pair.
\* r is the result of that parse_value, first the character the element began with.
\* The answer: done = TRUE, the value val of the pair is known; done = FALSE, the
\* loop of the top frame of stack takes another turn; p, dbg, brk as in Ret.
RECURSIVE after_element(_, _, _)
RECURSIVE end_loop(_, _, _, _, _)
RECURSIVE return_value(_, _, _, _, _)

\* the value val leaves parse_value, to the loop of the array around it or to the
\* pair arm of Parser::parse
return_value(stk, val, p, dbgs, brks) ==
    IF Len(stk) = 1
    THEN [done |-> TRUE, stack |-> stk, val |-> val, p |-> p, dbg |-> dbgs, brk |-> brks]
    ELSE after_element(stk, [val |-> val, p |-> p, dbg |-> dbgs, brk |-> brks], "[")

\* behind the loop: skip_whitespaces_and_comments, then ']' or NoValue
end_loop(stk, arr, p, dbgs, brks) ==
    With(advance_if(skip_whitespaces_and_comments(p), "]"), LAMBDA c :
        return_value(Pop(stk), IF c.ok THEN Array(arr) ELSE NoValue, c.p, dbgs, brks))

\* the body of the loop behind its parse_value
after_element(stk, r, first) ==
    With(stk[Len(stk)].arr, LAMBDA arr :
        IF r.val = NoValue
        THEN end_loop(stk, arr, r.p, r.dbg, r.brk \cup {first})
        ELSE IF arr # <<>> /\ ~have_equiv_types(Head(arr), r.val)
             THEN return_value(Pop(stk), NoValue, r.p,
                      r.dbg \cup {"Incompatible element types in array"}, r.brk)
             ELSE With(advance_if(skip_whitespaces_and_comments(r.p), ","), LAMBDA c :
                      IF c.ok
                      THEN [done |-> FALSE,
                            stack |-> [stk EXCEPT ![Len(stk)] = ArrayFrame(Append(arr, r.val))],
                            val |-> NoValue, p |-> c.p, dbg |-> r.dbg, brk |-> r.brk]
                      ELSE end_loop(stk, Append(arr, r.val), c.p, r.dbg, r.brk)))

\* the end of the pair arm: parse_value has returned v for the key ident
FinishPair(ident, v) ==
    /\ rest' = v.p.rest
    /\ line' = v.p.line
    /\ brk' = brk \cup v.brk
    /\ dbg' = dbg \cup v.dbg
    /\ stack' = <<>>
    /\ IF v.val # NoValue
       THEN \E pr \in {pair(root, current_path, ident, v.val)} :
              /\ root' = pr.root
              /\ hist' = Append(hist, PairEv(current_path,
                             IndexedPath(root, current_path),
                             ident, v.val, TRUE, pr.ok))
              /\ status' = AfterCall(pr)
              /\ result' = IF AfterCall(pr) = "fail"
                           THEN parse_from_buffer(FALSE, pr.root)
                           ELSE Pending
       ELSE /\ UNCHANGED root
            /\ hist' = Append(hist, PairEv(current_path,
                           IndexedPath(root, current_path),
                           ident, NoValue, FALSE, FALSE))
            /\ status' = "fail"
            /\ result' = parse_from_buffer(FALSE, root)
    /\ UNCHANGED <<doc, current_path, lk>>

\* one turn of the loop of Parser::parse on a pair whose value is no array
StepPair == status = "running" /\ ~StartsArray(Cur) /\ ParsePair

\* the loop of Parser::parse on a pair whose value begins with '[': up to the
\* first turn of the element loop
BeginArray ==
    /\ status = "running"
    /\ ~eos(Cur)
    /\ ch(Cur) # "["
    /\ StartsArray(Cur)
    /\ \E k \in {read_key(Cur)} :
         /\ rest' = array_begin(k.p).rest
         /\ line' = array_begin(k.p).line
         /\ stack' = <<ParseFrame(k.token), ArrayFrame(<<>>)>>
    /\ status' = "array"
    /\ UNCHANGED <<doc, root, current_path, result, hist, brk, dbg, lk>>

\* a turn of the element loop whose parse_value finds a '[': the loop of the
\* array inside begins
ElementArray ==
    /\ status = "array"
    /\ ch(Cur) = "["
    /\ rest' = array_begin(Cur).rest
    /\ line' = array_begin(Cur).line
    /\ stack' = Append(stack, ArrayFrame(<<>>))
    /\ UNCHANGED <<doc, root, current_path, status, result, hist, brk, dbg, lk>>

\* a turn of the element loop whose parse_value finds anything else, and with it
\* the ends of the loops that end there
ElementScalar ==
    /\ status = "array"
    /\ ch(Cur) # "["
    /\ \E r \in {parse_value_at(Cur)} : \E o \in {after_element(stack, r, ch(Cur))} :
         IF o.done
         THEN FinishPair(o.stack[1].ident, o)
         ELSE /\ rest' = o.p.rest
              /\ line' = o.p.line
              /\ stack' = o.stack
              /\ brk' = brk \cup o.brk
              /\ dbg' = dbg \cup o.dbg
              /\ UNCHANGED <<doc, root, current_path, status, result, hist, lk>>

\* the builder is driven directly: one call of Visitor::section
CallSection(name, is_array) ==
    /\ status = "running"
    /\ Len(hist) < MaxOps
    /\ \E s \in {section(root, name, is_array)} :
         /\ root' = s.root
         /\ current_path' = s.current_path
         /\ hist' = Append(hist, SectionEv(name, is_array, TRUE, s.ok))
         /\ status' = IF s.panic THEN "panic" ELSE status
    /\ UNCHANGED <<doc, rest, line, result, brk, dbg, lk, stack>>

\* the builder is driven directly: one call of Visitor::pair
CallPair(key, val) ==
    /\ status = "running"
    /\ Len(hist) < MaxOps
    /\ \E pr \in {pair(root, current_path, key, val)} :
         /\ root' = pr.root
         /\ hist' = Append(hist, PairEv(current_path, IndexedPath(root, current_path),
                                        key, val, TRUE, pr.ok))
         /\ status' = IF pr.panic THEN "panic" ELSE status
    /\ UNCHANGED <<doc, rest, line, current_path, result, brk, dbg, lk, stack>>

----------------------------------------------------------------------------
(* The inputs. *)

\* every text put together from at most n of the fragments
RECURSIVE Concats(_, _)
Concats(fragments, n) ==
    IF n = 0 THEN {<<>>}
    ELSE {<<>>} \cup {f \o t : f \in fragments, t \in Concats(fragments, n - 1)}

\* every text of at most n characters of the alphabet
RECURSIVE Texts(_, _)
Texts(alphabet, n) ==
    IF n = 0 THEN {<<>>}
    ELSE {<<>>} \cup {<<c>> \o t : c \in alphabet, t \in Texts(alphabet, n - 1)}

\* s1.s2. ... .sn
RECURSIVE Join(_)
Join(pieces) ==
    IF Len(pieces) = 1 THEN pieces[1]
    ELSE pieces[1] \o <<".">> \o Join(Tail(pieces))

\* documents of headers and pairs
DocChunks == {
    <<"[", "a", "]">>,
    <<"[", "[", "a", "]", "]">>,
    <<"[", "a", ".", "b", "]">>,
    <<"a", "=", "1">>,
    <<"b", "=", "[", "1", ",", "-", "2", "]">>,
    <<"0", "=", "2">> }

\* documents of headers, well-formed and not, comments and whitespace
HdrChunks == {
    <<"#", "a", NL>>,
    <<" ">>,
    <<NL>>,
    <<"[", "]">>,
    <<"[", "[", "]", "]">>,
    <<"[", ".", "a", "]">>,
    <<"[", "a", ".", ".", "b", "]">>,
    <<"[", "a", ".", "]">>,
    <<"[", "[", "a", ".", "]", "]">>,
    <<"[", "a", "]">>,
    <<"[", "[", "a", "]", "]">>,
    <<"a", "=", "1">> }

\* documents of plain and double headers, nested and not, and pairs
SecChunks == {
    <<"[", "a", "]">>,
    <<"[", "[", "a", "]", "]">>,
    <<"[", "a", ".", "b", "]">>,
    <<"[", "[", "a", ".", "b", "]", "]">>,
    <<"[", "a", ".", "b", ".", "a", "]">>,
    <<"a", "=", "1">>,
    <<"b", "=", "2">> }

\* The datetime texts: a year and '-', then five digit groups, each followed by its
\* separator, groups and separators right and wrong.
DtYears == {<<"2", "0", "1", "4">>, <<"0", "9", "9", "9">>}
DtMonths == {<<"0", "0">>, <<"1", "2">>, <<"1", "3">>, <<"1">>}
DtDays == {<<"0", "0">>, <<"3", "1">>, <<"3", "2">>}
DtHours == {<<"0", "3">>, <<"2", "4">>, <<"2", "5">>}
DtMinutes == {<<"6", "0">>, <<"6", "1">>, <<"4">>}
DtSeconds == {<<"0", "5">>, <<"6", "0">>, <<"6", "1">>}
DtTexts ==
    {y \o <<"-">> \o mo \o s1 \o d \o s2 \o h \o s3 \o mi \o s4 \o se \o s5 :
        y \in DtYears, mo \in DtMonths, s1 \in {<<"-">>, <<>>},
        d \in DtDays, s2 \in {<<"T">>, <<"t">>},
        h \in DtHours, s3 \in {<<":">>, <<>>},
        mi \in DtMinutes, s4 \in {<<":">>, <<"-">>},
        se \in DtSeconds, s5 \in {<<"Z">>, <<>>}}

\* The strings with a \u escape: "a\u, at most MaxHex characters, hex digits of
\* both cases and one that is none, then nothing or b, and the closing quote.
HexAlphabet == {"0", "1", "4", "D", "8", "F", "e", "g"}
StrTexts ==
    {<<QUOTE, "a", BACKSLASH, "u">> \o body \o tl \o <<QUOTE>> :
        body \in Texts(HexAlphabet, MaxHex), tl \in {<<>>, <<"b">>}}

\* The arrays of every kind of value, and of a lone '-' that is none: [e1,e2,...]
\* of at most MaxElems elements.
ElemTexts == {
    <<"-">>,
    <<"1">>,
    <<"-", "2">>,
    <<"t", "r", "u", "e">>,
    <<QUOTE, "a", QUOTE>>,
    <<"1", ".", "5">>,
    <<"[", "]">>,
    <<"[", "1", "]">>,
    <<"[", "t", "r", "u", "e", "]">>,
    <<"2", "0", "1", "4", "-", "0", "1", "-", "0", "2", "T",
      "0", "3", ":", "0", "4", ":", "0", "5", "Z">> }

RECURSIVE ElemLists(_)
ElemLists(n) ==
    IF n = 0 THEN {<<>>}
    ELSE {<<>>} \cup ElemTexts
         \cup {e \o <<",">> \o t : e \in ElemTexts, t \in ElemLists(n - 1) \ {<<>>}}

ArrTexts == {<<"[">> \o l \o <<"]">> : l \in ElemLists(MaxElems)}

\* The long digit runs: leading digits of 2^64 = 18446744073709551616 or of a run
\* of nines, then at most MaxTail digits more; with and without a '-' in front.
LeadDigits == {
    <<"1", "8", "4", "4", "6", "7", "4", "4", "0", "7", "3", "7", "0", "9", "5", "5", "1", "6", "1">>,
    <<"9", "9", "9", "9", "9", "9", "9", "9", "9", "9", "9", "9", "9", "9", "9", "9", "9", "9", "9">> }
NumTexts ==
    {sg \o SubSeq(ld, 1, n) \o tl :
        sg \in {<<>>, <<"-">>}, ld \in LeadDigits, n \in 0..19,
        tl \in Texts({"0", "5", "6", "9"}, MaxTail)}

\* The documents followed turn by turn: a header or a pair, then b=[ with
\* a comment behind it and at most MaxUnits pieces of an array text, well-formed
\* or not.
StepUnits == { <<"[">>, <<"]">>, <<"1">>, <<",">>, <<"t", "r", "u", "e">> }
StepFronts == { <<"[", "a", "]">>, <<"a", "=", "1", " ">> }
StepTexts ==
    {f \o <<"b", "=", "[", "#", NL>> \o t :
        f \in StepFronts, t \in Concats(StepUnits, MaxUnits)}

\* the characters of the value text of the array documents
ValAlphabet == {"[", "]", "1", ",", "-"}

\* the pieces of the lookup queries
QuerySegs == {<<"a">>, <<"b">>, <<"0">>, <<"1">>}

Queries ==
    {Join(ps) : ps \in UNION {[1..n -> QuerySegs] : n \in 1..MaxSegs}}

\* the arguments of the direct builder calls
Names == {<<"a">>, <<"b">>, <<"a", ".", "b">>, <<"a", ".">>}
Keys == {<<"a">>, <<"b">>}
Vals == {Unsigned(U64(1)), Unsigned(U64(2))}

InitOn(text) ==
    /\ doc = text
    /\ rest = parser_new(text).rest
    /\ line = parser_new(text).line
    /\ root = EmptyMap
    /\ current_path = <<>>
    /\ status = "running"
    /\ result = Pending
    /\ hist = <<>>
    /\ brk = {}
    /\ dbg = {}
    /\ lk = NoLookup
    /\ stack = <<>>

Init == \E text \in Concats(DocChunks, MaxChunks) : InitOn(text)
InitHdr == \E text \in Concats(HdrChunks, MaxChunks) : InitOn(text)
InitVal == \E text \in Texts(ValAlphabet, MaxValLen) : InitOn(<<"a", "=">> \o text)
InitDt == \E text \in DtTexts : InitOn(<<"d", "=">> \o text)
InitStr == \E text \in StrTexts : InitOn(<<"s", "=">> \o text)
InitArr == \E text \in ArrTexts : InitOn(<<"a", "=">> \o text)
InitNum == \E text \in NumTexts : InitOn(<<"a", "=">> \o text)
InitSteps == \E text \in StepTexts : InitOn(text)
InitSec == \E text \in Concats(SecChunks, MaxSecChunks) : InitOn(text)
InitB == InitOn(<<>>)

Parse == ParseEos \/ ParseSection \/ ParsePair

Next ==
    \/ ParseEos
    \/ ParseSection
    \/ ParsePair
    \/ \E q \in Queries : Lookup(q)

NextB ==
    \/ \E name \in Names, is_array \in BOOLEAN : CallSection(name, is_array)
    \/ \E key \in Keys, val \in Vals : CallPair(key, val)

\* parse_from_buffer on a document of headers and pairs, then lookups on its result
Spec == Init /\ [][Next]_vars
\* parse_from_buffer on a document of section headers
SpecHdr == InitHdr /\ [][Parse]_vars
\* parse_from_buffer on a document of plain and double headers and pairs
SpecSec == InitSec /\ [][Parse]_vars
\* parse_from_buffer on a document d = <datetime text>
NextDt == ParseEos \/ ParsePair
SpecDt == InitDt /\ [][NextDt]_vars
\* parse_from_buffer on a document s = <string with a \u escape>
SpecStr == InitStr /\ [][NextDt]_vars
\* parse_from_buffer on a document a = <array of values of every kind>
SpecArr == InitArr /\ [][NextDt]_vars
\* parse_from_buffer on a document a = <long digit run>
SpecNum == InitNum /\ [][NextDt]_vars
\* parse_from_buffer followed through every turn of the loop of Parser::parse and
\* of the element loops of its arrays; the loops run on until they end
NextSteps ==
    \/ ParseEos
    \/ ParseSection
    \/ StepPair
    \/ BeginArray
    \/ ElementArray
    \/ ElementScalar
SpecSteps == InitSteps /\ [][NextSteps]_vars /\ WF_vars(NextSteps)
\* parse_from_buffer on a document a = <value text>
SpecVal == InitVal /\ [][Parse]_vars
\* a ValueBuilder called directly
SpecB == InitB /\ [][NextB]_vars

----------------------------------------------------------------------------
(* What the claims speak of. *)

Absent == [k |-> "Absent"]

\* The value a section path names in the table ht, as the builder reads the path:
\* through a Table by key, through a TableArray into its last element.
RECURSIVE NodeAt(_, _)
NodeAt(ht, path) ==
    IF path = <<>> THEN Table(ht)
    ELSE IF Head(path) \notin DOMAIN ht THEN Absent
    ELSE IF Len(path) = 1 THEN ht[Head(path)]
    ELSE IF ht[Head(path)].k = "Table" THEN NodeAt(ht[Head(path)].m, Tail(path))
    ELSE IF /\ ht[Head(path)].k = "TableArray"
            /\ Len(ht[Head(path)].v) > 0
            /\ ht[Head(path)].v[Len(ht[Head(path)].v)].k = "Table"
         THEN NodeAt(ht[Head(path)].v[Len(ht[Head(path)].v)].m, Tail(path))
    ELSE Absent

\* the Table the pairs under that path go to: the last element when the path names
\* a TableArray
TableAt(ht, path) ==
    IF NodeAt(ht, path).k = "TableArray" /\ Len(NodeAt(ht, path).v) > 0
    THEN NodeAt(ht, path).v[Len(NodeAt(ht, path).v)]
    ELSE NodeAt(ht, path)

\* x is v or a value somewhere inside v
RECURSIVE IsNodeOf(_, _)
IsNodeOf(x, v) ==
    \/ x = v
    \/ v.k \in {"Array", "TableArray"} /\ \E i \in DOMAIN v.v : IsNodeOf(x, v.v[i])
    \/ v.k = "Table" /\ \E key \in DOMAIN v.m : IsNodeOf(x, v.m[key])

\* the text holds nothing but whitespace and comments
RECURSIVE AfterLine(_)
AfterLine(t) ==
    IF t = <<>> THEN <<>> ELSE IF Head(t) = NL THEN Tail(t) ELSE AfterLine(Tail(t))

RECURSIVE IsBlank(_)
IsBlank(t) ==
    IF t = <<>> THEN TRUE
    ELSE IF Head(t) \in {" ", TAB, CR, NL} THEN IsBlank(Tail(t))
    ELSE IF Head(t) = "#" THEN IsBlank(AfterLine(Tail(t)))
    ELSE FALSE

\* a dotted section identifier with an empty segment, the empty identifier included
HasEmptySegment(name) ==
    \/ name = <<>>
    \/ name[1] = "."
    \/ name[Len(name)] = "."
    \/ \E i \in 1..(Len(name) - 1) : name[i] = "." /\ name[i + 1] = "."

\* every call of the builder so far was accepted
AllOk == \A i \in DOMAIN hist : hist[i].ok

\* the accepted occurrences of the double header [[p]] among the first upto events
Occ(p, upto) ==
    {i \in 1..upto : /\ hist[i].op = "section" /\ hist[i].is_array
                     /\ hist[i].ok /\ hist[i].name = p}

\* the identifiers of the double headers
ArrayNames == {hist[i].name : i \in {j \in DOMAIN hist : hist[j].op = "section" /\ hist[j].is_array}}

\* path is a proper prefix of q
ProperPrefix(path, q) == Len(path) < Len(q) /\ SubSeq(q, 1, Len(path)) = path

\* no proper prefix of the path names a TableArray
NoArrayPrefix(path) ==
    \A n \in 1..(Len(path) - 1) : NodeAt(root, SubSeq(path, 1, n)).k # "TableArray"

\* After the accepted occurrences of [[p]], p names a TableArray with one Table
\* for each, and what followed the i-th occurrence is in the i-th of them.
ArrayOfOccurrences(p) ==
    LET path == split_str(p, ".")
        arr == NodeAt(root, path)
    IN  /\ arr.k = "TableArray"
        /\ Len(arr.v) = Cardinality(Occ(p, Len(hist)))
        /\ \A n \in DOMAIN arr.v : arr.v[n].k = "Table"
        /\ \A j \in DOMAIN hist :
               /\ (hist[j].op = "pair" /\ hist[j].path = path) =>
                      /\ hist[j].key \in DOMAIN arr.v[Cardinality(Occ(p, j))].m
                      /\ arr.v[Cardinality(Occ(p, j))].m[hist[j].key] = hist[j].val
               /\ ( /\ hist[j].op = "section"
                    /\ ProperPrefix(path, split_str(hist[j].name, "."))
                    /\ Occ(p, j) # {} ) =>
                      split_str(hist[j].name, ".")[Len(path) + 1]
                          \in DOMAIN arr.v[Cardinality(Occ(p, j))].m

\* the event the step adds to hist
Added == hist'[Len(hist')]

\* the pairs and the headers of hist
PairEvents == {i \in DOMAIN hist : hist[i].op = "pair"}
SectionEvents == {i \in DOMAIN hist : hist[i].op = "section"}

\* the last call of open_section, if there was one, was accepted
LastSectionOk ==
    \A i \in SectionEvents : (\A j \in SectionEvents : j <= i) => hist[i].ok

\* the path elements of the last lookup's query, and the node the first j lead to
LkElts == [i \in DOMAIN split_str(lk.q, ".") |-> path_elt(split_str(lk.q, ".")[i])]
LkNode(j) == lookup_path_elts(result, SubSeq(LkElts, 1, j))

\* the element does not lead on from node n: a key where n is no Table or has no
\* such key, an index where n is no sequence or is too short
NoSuch(n, elt) ==
    IF elt.t = "Key" THEN n.k # "Table" \/ elt.key \notin DOMAIN n.m
    ELSE n.k \notin {"Array", "TableArray"} \/ elt.idx >= Len(n.v)

----------------------------------------------------------------------------
(* The claims. *)

\* C1: a malformed array element is fatal to the parse: when the parse returns a
\* tree, every array element slot whose parse_value gave NoValue began with the
\* closing ']' (there was no element), never with the text of a malformed value.
C1_MalformedElementIsFatal ==
    result.k = "Table" => brk \subseteq {"]"}

\* C2: a document in which an array element is not type-compatible with the first
\* element of its array (the value parser wrote "Incompatible element types in
\* array") never parses to a tree, at whatever depth the array stands.
C2_HeterogeneousArrayFails ==
    result.k = "Table" => "Incompatible element types in array" \notin dbg

\* C3: after a successful parse, lookup returns v for every pair k = v declared
\* under the header path p, with the query p.k or, where a segment of p named a
\* TableArray when the pair was declared, with the index of the then-last element
\* of that array put behind the segment.
C3_DeclaredPairReachable ==
    status = "ok" =>
        \A i \in PairEvents :
            \/ lookup(result, Join(Append(hist[i].path, hist[i].key))) = hist[i].val
            \/ lookup(result, Join(Append(hist[i].at, hist[i].key))) = hist[i].val

\* C4: a plain header [p] for a p that names a Table is accepted, changes nothing
\* in the tree and makes p the current path; an accepted pair adds just its key
\* and value to the Table at the current path, so the pairs behind both
\* occurrences are in one Table; [[p]] for a p that names a Table and [p] for a p
\* that names a TableArray are rejected, and parse_from_buffer returns NoValue.
C4_Step ==
    Len(hist') = Len(hist) + 1 =>
        /\ (Added.op = "section" /\ Added.called) =>
              /\ ( /\ NodeAt(root, split_str(Added.name, ".")).k = "Table"
                   /\ ~Added.is_array ) =>
                     /\ Added.ok
                     /\ root' = root
                     /\ current_path' = split_str(Added.name, ".")
                     /\ status' = "running"
              /\ ( \/ /\ NodeAt(root, split_str(Added.name, ".")).k = "Table"
                      /\ Added.is_array
                   \/ /\ NodeAt(root, split_str(Added.name, ".")).k = "TableArray"
                      /\ ~Added.is_array ) =>
                     /\ ~Added.ok
                     /\ status' = "fail"
                     /\ result' = NoValue
        /\ (Added.op = "pair" /\ Added.ok) =>
              /\ TableAt(root, current_path).k = "Table"
              /\ TableAt(root', current_path) =
                     Table((Added.key :> Added.val) @@ TableAt(root, current_path).m)

C4_ReopenTable == [][C4_Step]_vars

C4_Witness ==
    /\ status = "ok"
    /\ Len(hist) = 4
    /\ hist[1].op = "section" /\ ~hist[1].is_array
    /\ hist[2].op = "pair"
    /\ hist[3] = hist[1]
    /\ hist[4].op = "pair"
    /\ DOMAIN NodeAt(root, split_str(hist[1].name, ".")).m = {hist[2].key, hist[4].key}
    /\ hist[2].key # hist[4].key

\* C5 as stated: while every header and pair was accepted, each p of a double
\* header [[p]] names a TableArray with exactly one Table for each occurrence of
\* the header, and every pair and sub-section behind the i-th occurrence is in the
\* i-th Table.
C5_ArrayOfTables ==
    AllOk => \A p \in ArrayNames : ArrayOfOccurrences(p)

\* C5 as amended: the same for each p none of whose proper prefixes names a
\* TableArray.
C5_ArrayOfTablesUnnested ==
    AllOk => \A p \in ArrayNames :
        NoArrayPrefix(split_str(p, ".")) => ArrayOfOccurrences(p)

C5_Witness ==
    /\ status = "ok"
    /\ \E p \in ArrayNames :
        /\ Cardinality(Occ(p, Len(hist))) = 2
        /\ NodeAt(root, split_str(p, ".")).v[1].m # EmptyMap
        /\ NodeAt(root, split_str(p, ".")).v[2].m # EmptyMap
        /\ NodeAt(root, split_str(p, ".")).v[1].m # NodeAt(root, split_str(p, ".")).v[2].m

\* C6: after a successful open_section, or before any, set_pair fails exactly when
\* the key is there already in the Table at the current path, and a set_pair that
\* fails leaves the tree as it was.
C6_Step ==
    ( /\ Len(hist') = Len(hist) + 1
      /\ Added.op = "pair"
      /\ LastSectionOk ) =>
        /\ TableAt(root, current_path).k = "Table"
        /\ ~Added.ok <=> Added.key \in DOMAIN TableAt(root, current_path).m
        /\ ~Added.ok => root' = root

C6_SetPairNeverOverwrites == [][C6_Step]_vars

\* C7: in lookup, an index i leads from an Array and from a TableArray of more than
\* i elements on to element i, and a key leads nowhere from a node that is no Table.
C7_IndexOnBothSequences ==
    lk.called =>
        \A j \in DOMAIN LkElts :
            LkNode(j - 1) # NotFound =>
                /\ ( /\ LkElts[j].t = "Idx"
                     /\ LkNode(j - 1).k \in {"Array", "TableArray"}
                     /\ LkElts[j].idx < Len(LkNode(j - 1).v) )
                   => LkNode(j) = LkNode(j - 1).v[LkElts[j].idx + 1]
                /\ (LkElts[j].t = "Key" /\ LkNode(j - 1).k # "Table")
                   => LkNode(j) = NotFound

\* C8: lookup answers with a node of the tree or with "not found", and with "not
\* found" whenever some element of the query does not lead on from the node the
\* elements before it lead to, whatever the later elements are: when the answer
\* is a node, every element led on from the node the elements before it led to.
C8_LookupTotalAndShortCircuit ==
    lk.called =>
        /\ lk.res = NotFound \/ IsNodeOf(lk.res, result)
        /\ lk.res # NotFound =>
               \A j \in DOMAIN LkElts :
                   /\ LkNode(j - 1) # NotFound
                   /\ ~NoSuch(LkNode(j - 1), LkElts[j])

C8_Witness ==
    /\ lk.called
    /\ lk.res = NotFound
    /\ Len(LkElts) = 3
    /\ LkNode(1) # NotFound
    /\ NoSuch(LkNode(1), LkElts[2])
    /\ root # EmptyMap

\* C9: parse_from_buffer returns the root Table exactly when the driver reached the
\* end of the input with every header and pair accepted, and the sentinel NoValue
\* on any failure; input of nothing but whitespace and comments gives an empty root.
C9_ResultIsRootOrSentinel ==
    /\ status = "running" => result = Pending
    /\ status = "ok" =>
           /\ result = Table(root)
           /\ rest = <<>>
           /\ \A i \in DOMAIN hist : hist[i].ok
    /\ status = "fail" =>
           /\ result = NoValue
           /\ hist # <<>> /\ ~hist[Len(hist)].ok
    /\ result.k = "Table" <=> status = "ok"
    /\ IsBlank(doc) /\ status # "running" => result = Table(EmptyMap)

C9_Witness ==
    /\ status = "fail"
    /\ result = NoValue
    /\ root # EmptyMap
    /\ Len(hist) >= 2

\* C10: a header whose identifier is empty or has an empty segment, in front, in
\* the middle or at the end, fails, and with it the parse.
C10_EmptySegmentFails ==
    \A i \in SectionEvents :
        HasEmptySegment(hist[i].name) =>
            /\ ~hist[i].ok
            /\ i = Len(hist)
            /\ status = "fail"
            /\ result = NoValue

C10_Witness ==
    /\ status = "fail"
    /\ root # EmptyMap
    /\ \E i \in SectionEvents :
        /\ hist[i].called
        /\ HasEmptySegment(hist[i].name)
        /\ hist[i].name[1] # "."

\* the text of the value in a document of one pair with a one-character key
ValueText == SubSeq(doc, 3, Len(doc))

\* the number a digit character stands for
DigitOf(c) == CHOOSE n \in 0..9 : DecDigits[n + 1] = c
IsDigit(c) == \E n \in 0..9 : DecDigits[n + 1] = c

\* the number the two digits at places i and i + 1 of t spell
TwoAt(t, i) == 10 * DigitOf(t[i]) + DigitOf(t[i + 1])

\* t begins with YYYY-MM-DDThh:mm:ssZ
DatetimeShape(t) ==
    /\ Len(t) >= 20
    /\ \A i \in {1, 2, 3, 4, 6, 7, 9, 10, 12, 13, 15, 16, 18, 19} : IsDigit(t[i])
    /\ t[5] = "-" /\ t[8] = "-" /\ t[11] = "T"
    /\ t[14] = ":" /\ t[17] = ":" /\ t[20] = "Z"

\* the month, day, hour, minute and second of such a text are in range
DatetimeRange(t) ==
    /\ TwoAt(t, 6) \in 1..12
    /\ TwoAt(t, 9) \in 1..31
    /\ TwoAt(t, 12) <= 24
    /\ TwoAt(t, 15) <= 60
    /\ TwoAt(t, 18) <= 60

\* C11: a value text of four digits and '-' gives a Datetime exactly when it is
\* YYYY-MM-DDThh:mm:ssZ with the month in 1..12, the day in 1..31, the hour at most
\* 24, minute and second at most 60, and then the six fields are the numbers the
\* digit groups spell; any other such text gives NoValue, never an integer, and
\* the parse fails.
C11_DatetimeExactly ==
    hist # <<>> =>
        /\ (DatetimeShape(ValueText) /\ DatetimeRange(ValueText)) =>
              /\ hist[1].ok
              /\ hist[1].val =
                     Datetime(100 * TwoAt(ValueText, 1) + TwoAt(ValueText, 3),
                              TwoAt(ValueText, 6), TwoAt(ValueText, 9),
                              TwoAt(ValueText, 12), TwoAt(ValueText, 15),
                              TwoAt(ValueText, 18))
        /\ ~(DatetimeShape(ValueText) /\ DatetimeRange(ValueText)) =>
              /\ hist[1].val = NoValue
              /\ status = "fail"
              /\ result = NoValue

C11_Witness ==
    /\ status = "ok"
    /\ hist[1].val.k = "Datetime"
    /\ hist[1].val.dt[1] = 999
    /\ hist[1].val.dt[4] = 24
    /\ hist[1].val.dt[5] = 60
    /\ hist[1].val.dt[6] = 60

\* the hexadecimal digits and the number each stands for
HexDigitChars == <<"0", "1", "2", "3", "4", "5", "6", "7", "8", "9",
                   "a", "b", "c", "d", "e", "f", "A", "B", "C", "D", "E", "F">>
HexDigitVals == <<0, 1, 2, 3, 4, 5, 6, 7, 8, 9, 10, 11, 12, 13, 14, 15, 10, 11, 12, 13, 14, 15>>
IsHex(c) == \E i \in DOMAIN HexDigitChars : HexDigitChars[i] = c
HexOf(c) == HexDigitVals[CHOOSE i \in DOMAIN HexDigitChars : HexDigitChars[i] = c]

\* in a document s="a\u..., what stands behind the \u, closing quote included
AfterU == SubSeq(doc, 7, Len(doc))

\* four hex digits stand behind the \u
FourHex == Len(AfterU) >= 4 /\ \A i \in 1..4 : IsHex(AfterU[i])

\* the number they spell
CodePoint ==
    4096 * HexOf(AfterU[1]) + 256 * HexOf(AfterU[2]) + 16 * HexOf(AfterU[3]) + HexOf(AfterU[4])

\* a number that is a code point: not one of the surrogates
IsScalar(n) == n < 55296 \/ n > 57343

\* the code points of the characters between the escape and the closing quote
BehindEscape ==
    [i \in 1..(Len(AfterU) - 5) |-> Ord(AfterU[4 + i])]

\* C12: in a string, \u and four hex digits d1 d2 d3 d4 that spell a code point
\* append the one code point 4096*d1 + 256*d2 + 16*d3 + d4; with fewer than four
\* hex digits behind the \u, or with a number that is no code point, the value is
\* NoValue and the parse fails.
C12_UnicodeEscape ==
    hist # <<>> =>
        /\ (FourHex /\ IsScalar(CodePoint)) =>
              /\ hist[1].ok
              /\ hist[1].val = String(<<97, CodePoint>> \o BehindEscape)
        /\ ~(FourHex /\ IsScalar(CodePoint)) =>
              /\ hist[1].val = NoValue
              /\ status = "fail"
              /\ result = NoValue

C12_Witness ==
    /\ status = "ok"
    /\ hist[1].val = String(<<97, 57344, 98>>)

\* the newline characters of a text
RECURSIVE CountNL(_)
CountNL(t) ==
    IF t = <<>> THEN 0
    ELSE (IF Head(t) = NL THEN 1 ELSE 0) + CountNL(Tail(t))

\* what the scanner has advanced over, and that with the current character, which
\* it has read from the input
AdvancedOver == SubSeq(doc, 1, Len(doc) - Len(rest))
ReadSoFar == SubSeq(doc, 1, Len(doc) - Len(rest) + (IF rest = <<>> THEN 0 ELSE 1))

\* C13: at every turn of the parse the line counter is 1 plus the number of
\* newline characters consumed so far, whether the current character counts as
\* consumed or not, for every input, one that begins with a newline included.
C13_LineCounter ==
    \/ line = 1 + CountNL(AdvancedOver)
    \/ line = 1 + CountNL(ReadSoFar)

\* the kinds of the values a pair declares
IsScalarKind(k) == k \in {"Boolean", "Unsigned", "Signed", "Float", "String", "Datetime", "Array"}

\* the proper prefixes of the path that name such a value in the tree
ScalarPrefixes(path) ==
    {n \in 1..(Len(path) - 1) : IsScalarKind(NodeAt(root, SubSeq(path, 1, n)).k)}

\* C14 as stated: a header of several segments one of whose non-terminal segments
\* names a value that is neither a Table nor a TableArray is accepted, and that
\* segment names a Table afterwards.
C14_StepFresh ==
    ( /\ Len(hist') = Len(hist) + 1
      /\ Added.op = "section" /\ Added.called
      /\ ~HasEmptySegment(Added.name)
      /\ ScalarPrefixes(split_str(Added.name, ".")) # {} ) =>
        /\ Added.ok
        /\ \A n \in ScalarPrefixes(split_str(Added.name, ".")) :
               NodeAt(root', SubSeq(split_str(Added.name, "."), 1, n)).k = "Table"

C14_ScalarSegmentReplaced == [][C14_StepFresh]_vars

\* C14 as amended: such a header is rejected, the tree stays as it was, the value
\* the segment names included, and parse_from_buffer returns NoValue; a fresh Table
\* is made only for a segment that names nothing.
C14_StepRejected ==
    ( /\ Len(hist') = Len(hist) + 1
      /\ Added.op = "section" /\ Added.called
      /\ ~HasEmptySegment(Added.name) ) =>
        /\ ScalarPrefixes(split_str(Added.name, ".")) # {} =>
              /\ ~Added.ok
              /\ root' = root
              /\ status' = "fail"
              /\ result' = NoValue
        /\ \A n \in 1..(Len(split_str(Added.name, ".")) - 1) :
              ( /\ NodeAt(root, SubSeq(split_str(Added.name, "."), 1, n)) # Absent
                /\ Added.ok ) =>
                  NodeAt(root', SubSeq(split_str(Added.name, "."), 1, n)).k =
                      NodeAt(root, SubSeq(split_str(Added.name, "."), 1, n)).k

C14_ScalarSegmentRejected == [][C14_StepRejected]_vars

C14_Witness ==
    /\ status = "fail"
    /\ Len(hist) = 3
    /\ hist[2].op = "pair" /\ hist[2].ok /\ hist[2].path # <<>>
    /\ hist[3].op = "section" /\ hist[3].called /\ ~hist[3].ok
    /\ Len(split_str(hist[3].name, ".")) = 3
    /\ ScalarPrefixes(split_str(hist[3].name, ".")) = {2}

\* the length of the digit run a text begins with, and the number the first n
\* characters of a text spell
RECURSIVE RunLen(_)
RunLen(t) == IF t # <<>> /\ IsDigit(Head(t)) THEN 1 + RunLen(Tail(t)) ELSE 0

RECURSIVE RunValue(_, _)
RunValue(t, n) == IF n = 0 THEN 0 ELSE 10 * RunValue(t, n - 1) + DigitOf(t[n])

\* the character behind the digit run of the value text, NoChar at the end
BehindRun ==
    IF RunLen(ValueText) < Len(ValueText) THEN ValueText[RunLen(ValueText) + 1] ELSE NoChar

\* C15 as stated: a value text that begins with a digit run, not followed by '.'
\* and not four digits followed by '-', gives the UnsignedInteger the run spells,
\* and the parser stands right behind the run.
C15_DigitRunUnsigned ==
    ( /\ hist # <<>>
      /\ RunLen(ValueText) > 0
      /\ BehindRun # "."
      /\ ~(RunLen(ValueText) = 4 /\ BehindRun = "-") ) =>
        /\ hist[1].val = Unsigned(U64(RunValue(ValueText, RunLen(ValueText))))
        /\ Len(hist) = 1 =>
               rest = SubSeq(ValueText, RunLen(ValueText) + 1, Len(ValueText))

\* C15 as amended: such a run followed by anything but '.' and '-' gives the
\* UnsignedInteger it spells, and the parser stands right behind the run; a run of
\* any other length than four followed by '-' gives NoValue, with the '-' not
\* consumed, and the parse fails.
C15_DigitRunUnsignedUnlessDash ==
    (hist # <<>> /\ RunLen(ValueText) > 0 /\ BehindRun # ".") =>
        /\ BehindRun # "-" =>
              /\ hist[1].val = Unsigned(U64(RunValue(ValueText, RunLen(ValueText))))
              /\ Len(hist) = 1 =>
                     rest = SubSeq(ValueText, RunLen(ValueText) + 1, Len(ValueText))
        /\ (BehindRun = "-" /\ RunLen(ValueText) # 4) =>
              /\ hist[1].val = NoValue
              /\ rest = SubSeq(ValueText, RunLen(ValueText) + 1, Len(ValueText))
              /\ status = "fail"
              /\ result = NoValue

C15_Witness ==
    /\ status = "fail"
    /\ RunLen(ValueText) = 5
    /\ BehindRun = "-"
    /\ hist[1].val = NoValue
    /\ Head(rest) = "-"

\* the type of a value as the rule for arrays sees it: the two integers are one
TypeClass(v) == IF v.k \in {"Unsigned", "Signed"} THEN "Integer" ELSE v.k

\* every Array in v holds values of the type of its first element, and no Table,
\* TableArray or NoValue
RECURSIVE ArraysUniform(_)
ArraysUniform(v) ==
    IF v.k = "Array"
    THEN \A i \in DOMAIN v.v :
            /\ v.v[i].k \notin {"Table", "TableArray", "NoValue"}
            /\ TypeClass(v.v[i]) = TypeClass(v.v[1])
            /\ ArraysUniform(v.v[i])
    ELSE IF v.k = "TableArray" THEN \A i \in DOMAIN v.v : ArraysUniform(v.v[i])
    ELSE IF v.k = "Table" THEN \A key \in DOMAIN v.m : ArraysUniform(v.m[key])
    ELSE TRUE

\* C16: in the tree of a successful parse every element of every Array is of the
\* type of the Array's first element (Boolean, integer of either sign, Float,
\* String, Datetime, Array), and no Array holds a Table, a TableArray or NoValue.
C16_ArraysUniform ==
    result.k = "Table" => ArraysUniform(result)

C16_Witness ==
    /\ status = "ok"
    /\ result.m[<<"a">>].k = "Array"
    /\ Len(result.m[<<"a">>].v) = 3
    /\ {result.m[<<"a">>].v[i].k : i \in 1..3} = {"Unsigned", "Signed"}
    /\ dbg = {}

\* every TableArray in v has an element, and Tables for elements
RECURSIVE TableArraysSound(_)
TableArraysSound(v) ==
    IF v.k = "TableArray"
    THEN /\ Len(v.v) > 0
         /\ \A i \in DOMAIN v.v : v.v[i].k = "Table" /\ TableArraysSound(v.v[i])
    ELSE IF v.k = "Table" THEN \A key \in DOMAIN v.m : TableArraysSound(v.m[key])
    ELSE IF v.k = "Array" THEN \A i \in DOMAIN v.v : TableArraysSound(v.v[i])
    ELSE TRUE

\* C17: after any calls of open_section and set_pair, accepted or not, every
\* TableArray of the builder's tree has at least one element and only Tables for
\* elements, and no assertion of the builder has failed.
C17_TableArraysSound ==
    /\ status # "panic"
    /\ TableArraysSound(Table(root))

C17_Witness ==
    /\ Len(hist) = 4
    /\ ~hist[3].ok
    /\ \E key \in DOMAIN root :
        /\ root[key].k = "TableArray"
        /\ Len(root[key].v) = 2
        /\ \E k2 \in DOMAIN root[key].v[1].m : root[key].v[1].m[k2].k = "TableArray"

\* Numbers in decimal, as sequences of DecWidth digits, the highest first.
DecWidth == 24
Zeros(n) == [i \in 1..n |-> 0]
Pad(ds) == Zeros(DecWidth - Len(ds)) \o ds

\* 2^64
TwoTo64 == Pad(<<1, 8, 4, 4, 6, 7, 4, 4, 0, 7, 3, 7, 0, 9, 5, 5, 1, 6, 1, 6>>)

\* a times 10^k, for an a with k zeros in front
Shift(a, k) == SubSeq(a, k + 1, DecWidth) \o Zeros(k)

\* a >= b
RECURSIVE DecGeq(_, _)
DecGeq(a, b) ==
    IF a = <<>> THEN TRUE
    ELSE IF Head(a) # Head(b) THEN Head(a) > Head(b)
    ELSE DecGeq(Tail(a), Tail(b))

\* the digits 1..i of a - b, for a >= b, with the borrow from the digits behind
RECURSIVE DecSubTo(_, _, _, _)
DecSubTo(a, b, i, borrow) ==
    IF i = 0 THEN <<>>
    ELSE IF a[i] - b[i] - borrow < 0
         THEN DecSubTo(a, b, i - 1, 1) \o <<a[i] - b[i] - borrow + 10>>
         ELSE DecSubTo(a, b, i - 1, 0) \o <<a[i] - b[i] - borrow>>

\* a reduced modulo 2^64, by taking 2^64 * 10^k away while that can be done, from
\* the k given down to 0
RECURSIVE ReduceFrom(_, _)
ReduceFrom(a, k) ==
    IF k < 0 THEN a
    ELSE IF DecGeq(a, Shift(TwoTo64, k))
         THEN ReduceFrom(DecSubTo(a, Shift(TwoTo64, k), DecWidth, 0), k)
         ELSE ReduceFrom(a, k - 1)

\* the limbs 1..i of a u64 divided by 10, with the rest r of the limbs above, and
\* the rest of that division
RECURSIVE U64Div10From(_, _, _)
U64Div10From(x, i, r) ==
    IF i = 0 THEN <<>>
    ELSE U64Div10From(x, i - 1, (r * 65536 + x[i]) % 10) \o <<(r * 65536 + x[i]) \div 10>>
U64Div10(x) == U64Div10From(x, 4, 0)
U64Mod10(x) == ((((((x[4] % 10) * 65536 + x[3]) % 10) * 65536 + x[2]) % 10) * 65536 + x[1]) % 10

\* the last n decimal digits of a u64
RECURSIVE U64Decimal(_, _)
U64Decimal(x, n) ==
    IF n = 0 THEN <<>>
    ELSE CHOOSE ds \in {U64Decimal(q, n - 1) \o <<U64Mod10(x)>> : q \in {U64Div10(x)}} : TRUE

\* the digit run of the value text, behind the '-' if there is one, as numbers
Negative == ValueText # <<>> /\ Head(ValueText) = "-"
RunText == IF Negative THEN Tail(ValueText) ELSE ValueText
RunDigits == [i \in 1..RunLen(RunText) |-> DigitOf(RunText[i])]

\* C18: a digit run of any length gives an integer, Signed behind a '-' and
\* Unsigned otherwise, that carries the number the run spells reduced modulo 2^64;
\* the value never fails for its magnitude.
C18_WrapsModulo64 ==
    (hist # <<>> /\ RunLen(RunText) > 0) =>
        /\ hist[1].ok
        /\ hist[1].val.k = (IF Negative THEN "Signed" ELSE "Unsigned")
        /\ U64Decimal(hist[1].val.n, DecWidth) =
               ReduceFrom(Pad(RunDigits), DecWidth - 20)

C18_Witness ==
    /\ status = "ok"
    /\ Len(ValueText) = 22
    /\ hist[1].val = Signed(<<6, 0, 0, 0>>)

\* C19: a call of open_section that fails leaves the root tree exactly as it was
\* before the call, and the current path is the path of the header that failed.
C19_Step ==
    (Len(hist') = Len(hist) + 1 /\ Added.op = "section" /\ Added.called /\ ~Added.ok) =>
        /\ root' = root
        /\ current_path' = split_str(Added.name, ".")
C19_FailedSectionKeepsTree == [][C19_Step]_vars

\* [a.] fails on a tree that has no a: no Table a is left behind; and a header
\* fails on a tree that is not empty, after a header with another path
C19_Witness ==
    /\ Len(hist) = 3
    /\ hist[1].op = "section" /\ hist[1].ok /\ hist[1].name = <<"b">>
    /\ hist[2].op = "pair" /\ hist[2].ok
    /\ hist[3].op = "section" /\ ~hist[3].ok /\ hist[3].name = <<"a", ".">>
    /\ <<"a">> \notin DOMAIN root
    /\ current_path = <<<<"a">>, <<>>>>

\* new is old grown: a Table keeps its keys and what they name has grown; a
\* TableArray keeps its elements, those that are not the last one of new as they
\* were; any other value is as it was
RECURSIVE Grows(_, _)
Grows(old, new) ==
    IF old.k = "Table"
    THEN /\ new.k = "Table"
         /\ \A key \in DOMAIN old.m :
                key \in DOMAIN new.m /\ Grows(old.m[key], new.m[key])
    ELSE IF old.k = "TableArray"
    THEN /\ new.k = "TableArray"
         /\ Len(new.v) >= Len(old.v)
         /\ \A i \in DOMAIN old.v :
                IF i < Len(new.v) THEN new.v[i] = old.v[i]
                ELSE Grows(old.v[i], new.v[i])
    ELSE new = old

\* C20: a successful call of open_section or set_pair only grows the tree: every
\* key stays, a scalar under it with the same value, and the elements of a
\* TableArray in front of its last one are not touched.
C20_Step ==
    (Len(hist') = Len(hist) + 1 /\ Added.called /\ Added.ok) =>
        Grows(Table(root), Table(root'))
C20_TreeOnlyGrows == [][C20_Step]_vars

\* [[a]], a pair, [[a]], a pair: the pairs are in two elements of the TableArray a
C20_Witness ==
    /\ Len(hist) = 4
    /\ \A i \in DOMAIN hist : hist[i].ok
    /\ <<"a">> \in DOMAIN root
    /\ root[<<"a">>].k = "TableArray"
    /\ Len(root[<<"a">>].v) = 2
    /\ DOMAIN root[<<"a">>].v[1].m # {}
    /\ DOMAIN root[<<"a">>].v[2].m # {}

\* C21: every turn of the loop of Parser::parse and of an element loop that does
\* not end the parse leaves less input than it found, and the parse returns.
C21_Step == status' \in {"running", "array"} => Len(rest') < Len(rest)
Returned == status \in {"ok", "fail", "panic"}
C21_ParseTerminates == [][C21_Step]_vars /\ <>Returned

\* b=[[1]] behind a header: two element loops have taken their turns and ended,
\* and the parse has returned true
C21_Witness ==
    /\ status = "ok"
    /\ stack = <<>>
    /\ rest = <<>>
    /\ Len(hist) = 2
    /\ hist[2].op = "pair"
    /\ hist[2].val = Array(<<Array(<<Unsigned(U64(1))>>)>>)

====
